---- MODULE Spec2Model ----
(***************************************************************************)
(* Model of app.py, the IPL player analytics dashboard.                    *)
(*                                                                         *)
(* The script is re-executed top to bottom on every widget change.  The    *)
(* state is the two loaded tables, the widget values kept by the session,  *)
(* and the tables the last execution of the script computed, together      *)
(* with the exception (if any) that stopped that execution.                *)
(*                                                                         *)
(* Numbers.  A float column is held exactly: a record                      *)
(*   [kind, num, den]  with kind "fin" (the rational num/den, in lowest    *)
(*   terms), "inf" or "nan".                                               *)
(* std_runs and consistency_index are square roots of rationals; they are  *)
(* held as a record of the same shape whose num/den is the SQUARE of the   *)
(* (non-negative) value.                                                   *)
(***************************************************************************)
EXTENDS Integers, Sequences, FiniteSets, TLC

VARIABLES
    matches_df,        \* rows [id, season]                     (line 38)
    deliveries_df,     \* rows of ball-by-ball records           (line 38)
    session,           \* widget values kept between reruns
    selected_season,   \* line 68
    selected_player,   \* line 81
    player1,           \* line 90
    player2,           \* line 91
    players,           \* line 78
    batting_df,        \* lines 96-104
    bowling_df,        \* lines 106-109
    player_perf,       \* lines 111-148
    overs_df,          \* line 159
    best_batsmen,      \* lines 164-166
    best_bowlers,      \* line 168
    kpi,               \* lines 183-186
    compare_df,        \* lines 220-235
    error              \* the exception that stopped the last run, or "none"

vars == <<matches_df, deliveries_df, session, selected_season, selected_player,
          player1, player2, players, batting_df, bowling_df, player_perf,
          overs_df, best_batsmen, best_bowlers, kpi, compare_df, error>>

-----------------------------------------------------------------------------
(* Values *)

\* a missing (null) cell of a text column
Null == "NaN"
\* what st.selectbox returns when its option list is empty
None == "None"
\* first entry of the single-player selectbox (line 83)
AllPlayers == "All Players"

\* player identifiers, in the order sorted() and groupby() put them
NameOrder == <<"A", "B", "C", "D", "E", "F", "G", "H">>

Min2(a, b) == IF a <= b THEN a ELSE b

RECURSIVE GCD(_, _)
GCD(a, b) == IF b = 0 THEN a ELSE GCD(b, a % b)

NaN == [kind |-> "nan", num |-> 0, den |-> 0]
Inf == [kind |-> "inf", num |-> 1, den |-> 0]
Fin(n, d) == LET g == GCD(n, d)
             IN  [kind |-> "fin", num |-> n \div g, den |-> d \div g]
Zero == Fin(0, 1)
IsFin(f) == f.kind = "fin"
IsNaN(f) == f.kind = "nan"
IsInf(f) == f.kind = "inf"

\* a / b on non-negative numbers, as numpy divides: x/0 is inf, 0/0 is nan
FDiv(a, b) == IF b # 0 THEN Fin(a, b)
              ELSE IF a # 0 THEN Inf ELSE NaN

\* f * k for an integer k > 0
FMulInt(f, k) == IF IsFin(f) THEN Fin(f.num * k, f.den) ELSE f

\* f / k for an integer k > 0
FDivInt(f, k) == IF IsFin(f) THEN Fin(f.num, f.den * k) ELSE f

FAdd(f, g) == IF IsNaN(f) \/ IsNaN(g) THEN NaN
              ELSE IF IsInf(f) \/ IsInf(g) THEN Inf
              ELSE Fin(f.num * g.den + g.num * f.den, f.den * g.den)

\* f > g, for values that are not nan
FGreater(f, g) == IF IsInf(g) THEN FALSE
                  ELSE IF IsInf(f) THEN TRUE
                  ELSE f.num * g.den > g.num * f.den

\* DataFrame.fillna(0) on one numeric cell: only nan is replaced
FillNa0(f) == IF IsNaN(f) THEN Zero ELSE f

\* Series.replace([inf, -inf], 0) on one cell
ReplaceInf0(f) == IF IsInf(f) THEN Zero ELSE f

RECURSIVE SumInts(_)
SumInts(s) == IF s = <<>> THEN 0 ELSE Head(s) + SumInts(Tail(s))

RECURSIVE SumFloats(_)
SumFloats(s) == IF s = <<>> THEN Zero ELSE FAdd(Head(s), SumFloats(Tail(s)))

\* Series.mean(): nan over an empty column
MeanFloats(s) == IF s = <<>> THEN NaN ELSE FDivInt(SumFloats(s), Len(s))

Column(rows, f) == [i \in DOMAIN rows |-> rows[i][f]]

\* sorted(set of names)
SortedNames(S) == SelectSeq(NameOrder, LAMBDA n : n \in S)

RECURSIVE SortedInts(_)
SortedInts(S) == IF S = {} THEN <<>>
                 ELSE LET m == CHOOSE x \in S : \A y \in S : x <= y
                      IN  <<m>> \o SortedInts(S \ {m})

-----------------------------------------------------------------------------
(* Program constants *)

PowerplayLastOver == 6
DeathFirstOver == 16
BestBatsmenN == 6
BestBowlersN == 5
Player2Index == 1
\* the efficiency weights 0.40, 0.30, 0.20, 0.10, in hundredths
WeightRuns == 40
WeightStrikeRate == 30
WeightWickets == 20
WeightConsistency == 10

-----------------------------------------------------------------------------
(* Season filter and player list, lines 67-78 *)

\* sorted(matches_df["season"].dropna().unique())
Seasons(m) == SortedInts({m[i].season : i \in DOMAIN m})

\* matches_df[matches_df["season"] == selected_season]["id"]
SeasonMatchIds(m, s) == {m[i].id : i \in {j \in DOMAIN m : m[j].season = s}}

\* deliveries_df[deliveries_df["match_id"].isin(season_match_ids)]
SeasonData(m, d, s) ==
    SelectSeq(d, LAMBDA r : r.match_id \in SeasonMatchIds(m, s))

\* the group keys of groupby(col): the non-null values, sorted
GroupKeys(rows, col) ==
    SortedNames({rows[i][col] : i \in DOMAIN rows} \ {Null})

\* the rows of one group
Group(rows, col, key) == SelectSeq(rows, LAMBDA r : r[col] = key)

\* sorted(season_data["batsman"].dropna().unique())
Players(sd) == GroupKeys(sd, "batsman")

-----------------------------------------------------------------------------
(* Batting and bowling aggregates, lines 96-109 *)

\* mutation of TotalRuns: the runs of the deliveries with a null ball cell are lost
TotalRunsOfCountedBalls(g) ==
    SumInts(Column(SelectSeq(g, LAMBDA r : ~IsNaN(r.ball)), "batsman_runs"))

\* ("batsman_runs", "sum")
TotalRuns(g) == SumInts(Column(g, "batsman_runs"))

\* ("ball", "count"): the number of non-null cells of the column
\* (a numeric column that has nulls is a float column: its cells are Fin or NaN)
BallsFaced(g) == Len(SelectSeq(g, LAMBDA r : ~IsNaN(r.ball)))

\* ("match_id", "nunique")
Innings(g) == Cardinality({g[i].match_id : i \in DOMAIN g})

\* (total_runs / balls_faced) * 100
StrikeRate(runs, balls) == FMulInt(FDiv(runs, balls), 100)

BattingRow(key, g) ==
    [batsman     |-> key,
     total_runs  |-> TotalRuns(g),
     balls_faced |-> BallsFaced(g),
     innings     |-> Innings(g),
     strike_rate |-> StrikeRate(TotalRuns(g), BallsFaced(g))]

BattingDf(sd) ==
    LET keys == GroupKeys(sd, "batsman")
    IN  [i \in DOMAIN keys |-> BattingRow(keys[i], Group(sd, "batsman", keys[i]))]

\* season_data[season_data["is_wicket"] == 1]
WicketBalls(sd) == SelectSeq(sd, LAMBDA r : r.is_wicket = 1)

\* .groupby("bowler").size().reset_index(name="wickets")
BowlingDf(sd) ==
    LET w == WicketBalls(sd)
        keys == GroupKeys(w, "bowler")
    IN  [i \in DOMAIN keys |->
            [bowler |-> keys[i], wickets |-> Len(Group(w, "bowler", keys[i]))]]

-----------------------------------------------------------------------------
(* batting/bowling merge, lines 111-116 *)

\* the rows of the right table whose key column equals the key
Matching(right, col, key) == SelectSeq(right, LAMBDA r : r[col] = key)

\* one left row joined to one right row, or to nothing (NaN cells)
JoinBowling(b, w) ==
    [batsman     |-> b.batsman,
     total_runs  |-> b.total_runs,
     balls_faced |-> b.balls_faced,
     innings     |-> b.innings,
     strike_rate |-> b.strike_rate,
     bowler      |-> IF w = <<>> THEN Null ELSE w[1].bowler,
     wickets     |-> IF w = <<>> THEN NaN ELSE Fin(w[1].wickets, 1)]

RECURSIVE Flatten(_)
Flatten(ss) == IF ss = <<>> THEN <<>> ELSE Head(ss) \o Flatten(Tail(ss))

\* the rows a left join makes of one left row: one per matching right row,
\* or a single row of NaN cells when nothing matches
LeftJoinRows(b, ms) ==
    IF ms = <<>> THEN <<JoinBowling(b, <<>>)>>
    ELSE [k \in DOMAIN ms |-> JoinBowling(b, <<ms[k]>>)]

\* mutation of MergeBowling: an inner join, which drops the unmatched rows
MergeBowlingInner(bat, bowl) ==
    Flatten([i \in DOMAIN bat |->
                LET ms == Matching(bowl, "bowler", bat[i].batsman)
                IN  [k \in DOMAIN ms |-> JoinBowling(bat[i], <<ms[k]>>)]])

\* batting_df.merge(bowling_df, left_on="batsman", right_on="bowler", how="left")
MergeBowling(bat, bowl) ==
    Flatten([i \in DOMAIN bat |->
                LeftJoinRows(bat[i], Matching(bowl, "bowler", bat[i].batsman))])

\* .fillna(0) on a merged row: every NaN cell becomes 0, inf stays
FillRow(r) ==
    [r EXCEPT !.strike_rate = FillNa0(@),
              !.bowler = IF @ = Null THEN 0 ELSE @,
              !.wickets = FillNa0(@)]

FillNaRows(rows) == [i \in DOMAIN rows |-> FillRow(rows[i])]

-----------------------------------------------------------------------------
(* Consistency index, lines 121-138 *)

\* season_data.groupby(["batsman", "match_id"])["batsman_runs"].sum():
\* the per-match run totals of one batsman, in match order
RunsMatch(sd, key) ==
    LET g == Group(sd, "batsman", key)
        ids == SortedInts({g[i].match_id : i \in DOMAIN g})
    IN  [k \in DOMAIN ids |->
            SumInts(Column(SelectSeq(g, LAMBDA r : r.match_id = ids[k]),
                           "batsman_runs"))]

SumSquares(xs) == SumInts([i \in DOMAIN xs |-> xs[i] * xs[i]])

\* "mean" of the per-match totals
AvgRuns(xs) == FDiv(SumInts(xs), Len(xs))

\* "std" (sample, ddof = 1), held as its square
\*   var = (n * sum(x^2) - sum(x)^2) / (n * (n - 1)),  nan when n < 2
StdRuns(xs) ==
    LET n == Len(xs)
    IN  IF n < 2 THEN NaN
        ELSE Fin(n * SumSquares(xs) - SumInts(xs) * SumInts(xs), n * (n - 1))

\* avg_runs / std_runs, held as its square: (avg^2) / var
RatioAvgStd(avg, std) ==
    IF IsNaN(avg) \/ IsNaN(std) THEN NaN
    ELSE IF std.num = 0 THEN (IF avg.num = 0 THEN NaN ELSE Inf)
    ELSE Fin(avg.num * avg.num * std.den, avg.den * avg.den * std.num)

\* mutation of ConsistencyIndex: the infinite ratios are not replaced
ConsistencyIndexUnreplaced(xs) == FillNa0(RatioAvgStd(AvgRuns(xs), StdRuns(xs)))

\* (avg_runs / std_runs).replace([np.inf, -np.inf], 0).fillna(0)
ConsistencyIndex(xs) ==
    FillNa0(ReplaceInf0(RatioAvgStd(AvgRuns(xs), StdRuns(xs))))

Consistency(sd) ==
    LET keys == GroupKeys(sd, "batsman")
    IN  [i \in DOMAIN keys |->
            [batsman |-> keys[i],
             avg_runs |-> AvgRuns(RunsMatch(sd, keys[i])),
             std_runs |-> StdRuns(RunsMatch(sd, keys[i])),
             consistency_index |-> ConsistencyIndex(RunsMatch(sd, keys[i]))]]

\* total_runs * 0.40 + strike_rate * 0.30 + wickets * 0.20
\*   + consistency_index * 0.10
\* The first three terms are rational and are added up; the consistency term
\* is a square root and is kept beside them.  The value denoted is
\*   rational + (WeightConsistency / 100) * sum(terms) / divisor
EfficiencyScore(r, ci) ==
    [rational |-> FDivInt(FAdd(Fin(WeightRuns * r.total_runs, 1),
                               FAdd(FMulInt(r.strike_rate, WeightStrikeRate),
                                    FMulInt(r.wickets, WeightWickets))), 100),
     terms    |-> <<ci>>,
     divisor  |-> 1]

\* one row of player_perf joined to its consistency row (NaN when none)
JoinConsistency(r, c) ==
    LET ci == IF c = <<>> THEN NaN ELSE c[1].consistency_index
    IN  [batsman           |-> r.batsman,
         total_runs        |-> r.total_runs,
         balls_faced       |-> r.balls_faced,
         innings           |-> r.innings,
         strike_rate       |-> r.strike_rate,
         bowler            |-> r.bowler,
         wickets           |-> r.wickets,
         consistency_index |-> ci,
         efficiency_score  |-> EfficiencyScore(r, ci)]

\* player_perf.merge(consistency[...], on="batsman", how="left"), lines 134-148
MergeConsistency(perf, cons) ==
    Flatten([i \in DOMAIN perf |->
        LET ms == Matching(cons, "batsman", perf[i].batsman)
        IN  IF ms = <<>> THEN <<JoinConsistency(perf[i], <<>>)>>
            ELSE [k \in DOMAIN ms |-> JoinConsistency(perf[i], <<ms[k]>>)]])

\* player_perf as the script leaves it at line 148
PlayerPerf(sd) ==
    MergeConsistency(FillNaRows(MergeBowling(BattingDf(sd), BowlingDf(sd))),
                     Consistency(sd))

-----------------------------------------------------------------------------
(* Powerplay / death overs, lines 153-159 *)

\* mutation of IsPowerplay: over 6 left out
IsPowerplayStrict(r) == r.over < PowerplayLastOver

\* season_data["over"] <= 6
IsPowerplay(r) == r.over <= PowerplayLastOver

\* season_data["over"] >= 16
IsDeath(r) == r.over >= DeathFirstOver

\* x.groupby("batsman")["batsman_runs"].sum(): keys and sums
RunsBy(rows) ==
    LET keys == GroupKeys(rows, "batsman")
    IN  [i \in DOMAIN keys |->
            [batsman |-> keys[i], runs |-> TotalRuns(Group(rows, "batsman", keys[i]))]]

\* the cell of a group-sum table for a key, NaN when the key has no row
CellOf(tbl, key) ==
    LET ms == Matching(tbl, "batsman", key)
    IN  IF ms = <<>> THEN NaN ELSE Fin(ms[1].runs, 1)

\* pp_runs.merge(death_runs, on="batsman", how="outer").fillna(0)
OversDf(sd) ==
    LET pp == RunsBy(SelectSeq(sd, IsPowerplay))
        death == RunsBy(SelectSeq(sd, IsDeath))
        keys == SortedNames({pp[i].batsman : i \in DOMAIN pp}
                            \cup {death[i].batsman : i \in DOMAIN death})
    IN  [i \in DOMAIN keys |->
            [batsman        |-> keys[i],
             powerplay_runs |-> FillNa0(CellOf(pp, keys[i])),
             death_runs     |-> FillNa0(CellOf(death, keys[i]))]]

-----------------------------------------------------------------------------
(* Best XI, lines 164-168 *)

\* mutation of BatsmanBefore: the tie-break on strike_rate is missing
BatsmanBeforeByRunsOnly(a, b) == a.total_runs > b.total_runs

\* row a sorts strictly before row b under
\* sort_values(["total_runs", "strike_rate"], ascending=False)
BatsmanBefore(a, b) ==
    \/ a.total_runs > b.total_runs
    \/ a.total_runs = b.total_runs /\ FGreater(a.strike_rate, b.strike_rate)

\* stable insertion of row x into a sorted sequence: after every row that
\* does not sort strictly after it
RECURSIVE InsertSorted(_, _)
InsertSorted(x, s) ==
    IF s = <<>> THEN <<x>>
    ELSE IF BatsmanBefore(x, Head(s)) THEN <<x>> \o s
    ELSE <<Head(s)>> \o InsertSorted(x, Tail(s))

\* DataFrame.sort_values([...], ascending=False) on several columns: a
\* lexicographic sort, stable, descending
RECURSIVE SortValues(_)
SortValues(rows) ==
    IF rows = <<>> THEN <<>>
    ELSE InsertSorted(rows[Len(rows)], SortValues(SubSeq(rows, 1, Len(rows) - 1)))

\* DataFrame.head(n)
HeadRows(rows, n) == SubSeq(rows, 1, Min2(n, Len(rows)))

BestBatsmen(perf) == HeadRows(SortValues(perf), BestBatsmenN)

\* the rows of R that no row of R precedes under
\* sort_values("wickets", ascending=False)
MostWickets(R) == {r \in R : \A q \in R : q.wickets <= r.wickets}

\* the first n rows of every descending order of the rows R.  A sort on one
\* column is a quicksort, which keeps no order among rows with equal keys:
\* each of their orders is a possible result.
RECURSIVE HeadsOfSorts(_, _)
HeadsOfSorts(R, n) ==
    IF n = 0 \/ R = {} THEN {<<>>}
    ELSE UNION {{<<r>> \o t : t \in HeadsOfSorts(R \ {r}, n - 1)} : r \in MostWickets(R)}

\* bowling_df.sort_values("wickets", ascending=False).head(5): the set of
\* the tables the statement can produce
BestBowlers(bowl) == HeadsOfSorts({bowl[i] : i \in DOMAIN bowl}, BestBowlersN)

-----------------------------------------------------------------------------
(* The place of x = e + w * sqrt(q) among the integers, for round(x, 2) *)

\* floor of the square root of m, by bisection between lo and hi
RECURSIVE ISqrtBetween(_, _, _)
ISqrtBetween(m, lo, hi) ==
    IF hi - lo <= 1 THEN lo
    ELSE LET mid == (lo + hi) \div 2
         IN  IF mid * mid <= m THEN ISqrtBetween(m, mid, hi)
             ELSE ISqrtBetween(m, lo, mid)

ISqrt(m) == ISqrtBetween(m, 0, Min2(m, 46339) + 1)

\* x >= k - 1/2, where x = e + w * sqrt(q), e and q finite and not negative
AtLeastHalfBelow(e, w, q, k) ==
    LET c == (2 * k - 1) * e.den - 2 * e.num
    IN  \/ c <= 0
        \/ q.den * c * c <= w * w * q.num * 4 * e.den * e.den

\* x = k - 1/2 exactly
IsHalfBelow(e, w, q, k) ==
    LET c == (2 * k - 1) * e.den - 2 * e.num
    IN  c >= 0 /\ q.den * c * c = w * w * q.num * 4 * e.den * e.den

\* the larger of the integers nearest to x = e + w * sqrt(q): the largest k
\* with x >= k - 1/2
NearestAbove(e, w, q) ==
    LET lo == (e.num \div e.den) + ISqrt((w * w * q.num) \div q.den)
    IN  IF AtLeastHalfBelow(e, w, q, lo + 2) THEN lo + 2
        ELSE IF AtLeastHalfBelow(e, w, q, lo + 1) THEN lo + 1
        ELSE lo

-----------------------------------------------------------------------------
(* The float64 arithmetic of lines 104, 143-148 and 226-233.  A natural
   number is the sequence of its binary digits, the lowest first; a float64
   is m * 2^e with m of Mantissa digits, the highest of them 1. *)

Mantissa == 53

F64Zero == [m |-> <<>>, e |-> 0]
\* a float64 that comes out of the library's mean and std
F64Unknown == [m |-> <<>>, e |-> 1]

Zeros(n) == [i \in 1..n |-> 0]

RECURSIVE BitsOf(_)
BitsOf(n) == IF n = 0 THEN <<>> ELSE <<n % 2>> \o BitsOf(n \div 2)

RECURSIVE ToInt(_)
ToInt(a) == IF a = <<>> THEN 0 ELSE Head(a) + 2 * ToInt(Tail(a))

\* the number of digits up to the highest 1
BitLen(a) ==
    LET S == {i \in DOMAIN a : a[i] = 1}
    IN  IF S = {} THEN 0 ELSE CHOOSE i \in S : \A j \in S : j <= i

\* sums and products are taken on the digits in base LimbBase
LimbBase == 2 ^ 14
LimbWidth == BitLen(BitsOf(LimbBase)) - 1

LimbsOf(a) ==
    [j \in 1..((Len(a) + LimbWidth - 1) \div LimbWidth) |->
        ToInt(SubSeq(a, (j - 1) * LimbWidth + 1, Min2(j * LimbWidth, Len(a))))]

BitsOfLimbs(x) ==
    [i \in 1..(Len(x) * LimbWidth) |->
        (x[(i - 1) \div LimbWidth + 1] \div (2 ^ ((i - 1) % LimbWidth))) % 2]

\* the digits of the number whose digit k, before the carries, is cols[k]
RECURSIVE Carried(_, _)
Carried(cols, carry) ==
    IF cols = <<>>
    THEN (IF carry = 0 THEN <<>>
          ELSE <<carry % LimbBase>> \o Carried(<<>>, carry \div LimbBase))
    ELSE <<(Head(cols) + carry) % LimbBase>>
         \o Carried(Tail(cols), (Head(cols) + carry) \div LimbBase)

\* the sum of x[j] * y[k + 1 - j] over j >= i
RECURSIVE ColumnSum(_, _, _, _)
ColumnSum(x, y, k, i) ==
    IF i > Len(x) THEN 0
    ELSE (IF k + 1 - i \in DOMAIN y THEN x[i] * y[k + 1 - i] ELSE 0)
         + ColumnSum(x, y, k, i + 1)

AddLimbs(x, y) ==
    Carried([k \in DOMAIN x \cup DOMAIN y |->
                (IF k \in DOMAIN x THEN x[k] ELSE 0)
              + (IF k \in DOMAIN y THEN y[k] ELSE 0)], 0)

AddBits(a, b) == BitsOfLimbs(AddLimbs(LimbsOf(a), LimbsOf(b)))

MulLimbs(x, y) ==
    Carried([k \in 1..(Len(x) + Len(y) - 1) |-> ColumnSum(x, y, k, 1)], 0)

MulBits(a, b) == BitsOfLimbs(MulLimbs(LimbsOf(a), LimbsOf(b)))

\* the float64 a * 2^e, a of Mantissa digits or, after a carry, one more
Normal(a, e) ==
    IF BitLen(a) > Mantissa THEN [m |-> SubSeq(a, 2, Mantissa + 1), e |-> e + 1]
    ELSE [m |-> SubSeq(a, 1, Mantissa), e |-> e]

\* a without its d lowest digits is rounded up: they are more than half of
\* the digit above them, or half and that digit is odd
RoundsUp(a, d, sticky) ==
    a[d] = 1 /\ (sticky \/ a[d + 1] = 1 \/ \E i \in 1..(d - 1) : a[i] = 1)

\* a of Mantissa + d digits: d < 0 appends zeros, d > 0 drops digits
Placed(a, e, sticky, d) ==
    IF d + Mantissa = 0 THEN F64Zero
    ELSE IF d <= 0
    THEN [m |-> Zeros(0 - d) \o SubSeq(a, 1, d + Mantissa), e |-> e + d]
    ELSE IF RoundsUp(a, d, sticky)
    THEN Normal(AddBits(SubSeq(a, d + 1, Len(a)), <<1>>), e + d)
    ELSE Normal(SubSeq(a, d + 1, Len(a)), e + d)

\* the float64 nearest to a * 2^e (plus a positive amount below the lowest
\* digit when sticky), a tie going to the even mantissa
RoundBits(a, e, sticky) == Placed(a, e, sticky, BitLen(a) - Mantissa)

F64OfInt(n) == RoundBits(BitsOf(n), 0, FALSE)

\* acc with n more digits of rem / b below it, and what is left over
RECURSIVE FracLimbs(_, _, _, _)
FracLimbs(rem, b, n, acc) ==
    IF n = 0 THEN [limbs |-> acc, rem |-> rem]
    ELSE FracLimbs((rem * LimbBase) % b, b, n - 1, <<(rem * LimbBase) \div b>> \o acc)

\* the quotient is taken to enough digits to hold a mantissa and one more
FracCount == Mantissa \div LimbWidth + 2

Quotient(frac) ==
    RoundBits(BitsOfLimbs(frac.limbs), 0 - FracCount * LimbWidth, frac.rem # 0)

\* the float64 of r / b, for integers r >= 0 and 0 < b < 2^17
F64Div(r, b) == Quotient(FracLimbs(r % b, b, FracCount, LimbsOf(BitsOf(r \div b))))

F64Mul(x, y) ==
    IF x = F64Unknown \/ y = F64Unknown THEN F64Unknown
    ELSE IF x = F64Zero \/ y = F64Zero THEN F64Zero
    ELSE RoundBits(MulBits(x.m, y.m), x.e + y.e, FALSE)

\* x and y as digits above the lower of the two exponents
Aligned(x, e) == Zeros(x.e - e) \o x.m

F64Add(x, y) ==
    IF x = F64Unknown \/ y = F64Unknown THEN F64Unknown
    ELSE IF x = F64Zero THEN y
    ELSE IF y = F64Zero THEN x
    ELSE RoundBits(AddBits(Aligned(x, Min2(x.e, y.e)), Aligned(y, Min2(x.e, y.e))),
                   Min2(x.e, y.e), FALSE)

\* np.rint: the nearest integer, a tie going to the even one
Rint(x) ==
    IF x = F64Zero THEN 0
    ELSE IF x.e >= 0 THEN ToInt(Zeros(x.e) \o x.m)
    ELSE IF 0 - x.e > Mantissa THEN 0
    ELSE LET d    == 0 - x.e
             int  == ToInt(SubSeq(x.m, d + 1, Mantissa))
             rest == \E i \in 1..(d - 1) : x.m[i] = 1
         IN  IF x.m[d] = 1 /\ (rest \/ int % 2 = 1) THEN int + 1 ELSE int

\* the expressions of the script, and their values
Const(x) == [op |-> "const", x |-> x]
IntOf(n) == [op |-> "int", n |-> n]
Over(n, d) == [op |-> "/", n |-> n, d |-> d]
Times(x, y) == [op |-> "*", x |-> x, y |-> y]
Plus(x, y) == [op |-> "+", x |-> x, y |-> y]

RECURSIVE F64Value(_)
F64Value(t) ==
    CASE t.op = "const" -> t.x
      [] t.op = "int"   -> F64OfInt(t.n)
      [] t.op = "/"     -> F64Div(t.n, t.d)
      [] t.op = "*"     -> F64Mul(F64Value(t.x), F64Value(t.y))
      [] t.op = "+"     -> F64Add(F64Value(t.x), F64Value(t.y))

\* (total_runs / balls_faced) * 100, line 104
StrikeRateExpr(r) == Times(Over(r.total_runs, r.balls_faced), IntOf(100))

\* the consistency index is known as a float64 only when it is the 0 that
\* replace and fillna put there, line 134
ConsistencyExpr(r) ==
    Const(IF r.consistency_index = Zero THEN F64Zero ELSE F64Unknown)

\* lines 143-148, the sum taken from left to right
EfficiencyExpr(r) ==
    Plus(Plus(Plus(Times(IntOf(r.total_runs), Over(WeightRuns, 100)),
                   Times(StrikeRateExpr(r), Over(WeightStrikeRate, 100))),
              Times(IntOf(r.wickets.num \div r.wickets.den), Over(WeightWickets, 100))),
         Times(ConsistencyExpr(r), Over(WeightConsistency, 100)))

-----------------------------------------------------------------------------
(* round(x, 2) of a float64, lines 226-233: np.rint(x * 100) / 100 *)

\* the results round(held, 2) can give, as numbers of hundredths, where
\* held is the float64 the script holds for x = rational + (w / 100) *
\* sqrt(q), the value of the expression expr.  held is within 2^-40 of x,
\* so when x * 100 is not halfway between two integers held rounds as x
\* does; when it is, the digits of held decide, and either neighbour is
\* possible when they are not known.  inf and nan stay.
Round2(rational, w, q, expr) ==
    IF IsNaN(rational) \/ IsNaN(q) THEN {NaN}
    ELSE IF IsInf(rational) \/ IsInf(q) THEN {Inf}
    ELSE LET e  == FMulInt(rational, 100)
             up == NearestAbove(e, w, q)
         IN  IF ~IsHalfBelow(e, w, q, up) THEN {Fin(up, 100)}
             ELSE IF F64Value(expr) = F64Unknown THEN {Fin(up - 1, 100), Fin(up, 100)}
             ELSE {Fin(Rint(F64Value(Times(expr, IntOf(100)))), 100)}

-----------------------------------------------------------------------------
(* Widgets, lines 68-91.  The selectbox is the library's: it raises when
   the option list is not empty and the index is outside it, returns None
   for an empty list, keeps the user's choice for as long as the widget is
   shown with the same options, and forgets the widgets a run that ended
   normally did not show. *)

NoError == [type |-> "none", line |-> 0]
\* the value of a name the script never bound, or a table it never built
Unbound == "unbound"
NotBuilt == <<>>

\* the value the session keeps for a widget with these options, else the
\* default.  A widget is identified by its label and its options, so a
\* value chosen under one option list is not used under another.
Kept(store, opts, default) ==
    IF \E e \in store : e.options = opts
    THEN (CHOOSE e \in store : e.options = opts).value
    ELSE default

\* st.selectbox(label, opts, index): raises when the list is not empty and
\* the index is outside it; returns None for an empty list
SelectboxRaises(opts, index) ==
    Len(opts) > 0 /\ ~(0 <= index /\ index < Len(opts))

Selectbox(store, opts, index) ==
    IF Len(opts) = 0 THEN None ELSE Kept(store, opts, opts[index + 1])

\* the user picks value v in a widget showing opts
Pick(store, opts, v) ==
    {e \in store : e.options # opts} \cup {[options |-> opts, value |-> v]}

\* when a run ends normally the session forgets the widgets it did not show
Cull(store, opts) == {e \in store : e.options = opts}

-----------------------------------------------------------------------------
(* KPIs and comparison, lines 173-235 *)

\* display_df, lines 173-175
DisplayDf(perf, sel) ==
    IF sel # AllPlayers THEN SelectSeq(perf, LAMBDA r : r.batsman = sel) ELSE perf

\* Series.mean() of the efficiency_score column
MeanEfficiency(rows) ==
    [rational |-> MeanFloats([i \in DOMAIN rows |-> rows[i].efficiency_score.rational]),
     terms    |-> [i \in DOMAIN rows |-> rows[i].consistency_index],
     divisor  |-> Len(rows)]

\* the four values the script hands to int() and round(., 2), lines 183-186
Kpi(disp) ==
    [total_runs      |-> Fin(SumInts(Column(disp, "total_runs")), 1),
     avg_strike_rate |-> MeanFloats(Column(disp, "strike_rate")),
     total_wickets   |-> SumFloats(Column(disp, "wickets")),
     avg_efficiency  |-> MeanEfficiency(disp)]

\* player_perf[player_perf["batsman"] == p]
RowsOf(perf, p) == SelectSeq(perf, LAMBDA r : r.batsman = p)

\* .iloc[0] raises IndexError on an empty selection
IlocRaises(rows) == rows = <<>>

\* the values one player's column can show, lines 225-234
Metrics(r) ==
    {<<r.total_runs, sr, r.wickets.num \div r.wickets.den, ci, eff>> :
        sr  \in Round2(r.strike_rate, 0, Zero, StrikeRateExpr(r)),
        ci  \in Round2(Zero, 100, r.consistency_index, ConsistencyExpr(r)),
        eff \in Round2(r.efficiency_score.rational, WeightConsistency,
                       r.consistency_index, EfficiencyExpr(r))}

MetricNames == <<"Runs", "Strike Rate", "Wickets", "Consistency", "Efficiency">>

\* pd.DataFrame({"Metric": [...], player1: [...], player2: [...]}): the
\* columns are the keys of a dict, so when player1 = player2 the second
\* entry replaces the first and the table has one player column
CompareDf(p1, r1, p2, r2) ==
    {[c \in {"Metric", p1, p2} |->
        IF c = "Metric" THEN MetricNames
        ELSE IF c = p2 THEN m2 ELSE m1] : m1 \in Metrics(r1), m2 \in Metrics(r2)}

-----------------------------------------------------------------------------
(* One execution of the script, lines 67-237 *)

\* the outcomes a run can have: one for each order the bowlers' sort can
\* give and each table the comparison can show
RunScript(m, d, sess) ==
    LET seasons == Seasons(m)
        season  == Selectbox(sess.season, seasons, 0)
        sd      == SeasonData(m, d, season)
        pl      == Players(sd)
        single  == Selectbox(sess.single, <<AllPlayers>> \o pl, 0)
        p1      == Selectbox(sess.p1, pl, 0)
        p2      == Selectbox(sess.p2, pl, Player2Index)
        perf    == PlayerPerf(sd)
        r1      == RowsOf(perf, p1)
        r2      == RowsOf(perf, p2)
        base    == [selected_season |-> season, players |-> pl,
                    selected_player |-> single, player1 |-> p1]
    IN  IF SelectboxRaises(pl, Player2Index)
        THEN {base @@
             [player2 |-> Unbound,
              batting_df |-> NotBuilt, bowling_df |-> NotBuilt,
              player_perf |-> NotBuilt, overs_df |-> NotBuilt,
              best_batsmen |-> NotBuilt, best_bowlers |-> NotBuilt,
              kpi |-> NotBuilt, compare_df |-> NotBuilt,
              error |-> [type |-> "StreamlitAPIException", line |-> 91]]}
        ELSE {base @@
             [player2 |-> p2,
              batting_df |-> BattingDf(sd), bowling_df |-> BowlingDf(sd),
              player_perf |-> perf, overs_df |-> OversDf(sd),
              best_batsmen |-> BestBatsmen(perf),
              best_bowlers |-> bb,
              kpi |-> Kpi(DisplayDf(perf, single)),
              compare_df |-> cmp,
              error |-> IF IlocRaises(r1) THEN [type |-> "IndexError", line |-> 220]
                        ELSE IF IlocRaises(r2) THEN [type |-> "IndexError", line |-> 221]
                        ELSE NoError]
              : bb \in BestBowlers(BowlingDf(sd)),
                cmp \in IF IlocRaises(r1) \/ IlocRaises(r2) THEN {NotBuilt}
                        ELSE CompareDf(p1, r1[1], p2, r2[1])}

\* the session after a run: an exception leaves it as it is
SessionAfter(sess, out) ==
    IF out.error # NoError THEN sess
    ELSE [season |-> sess.season,
          single |-> Cull(sess.single, <<AllPlayers>> \o out.players),
          p1     |-> Cull(sess.p1, out.players),
          p2     |-> Cull(sess.p2, out.players)]

\* the script runs with session sess; every name it binds is rebound
Rerun(sess) ==
    \E out \in RunScript(matches_df, deliveries_df, sess) :
        /\ session' = SessionAfter(sess, out)
        /\ selected_season' = out.selected_season
        /\ selected_player' = out.selected_player
        /\ player1' = out.player1
        /\ player2' = out.player2
        /\ players' = out.players
        /\ batting_df' = out.batting_df
        /\ bowling_df' = out.bowling_df
        /\ player_perf' = out.player_perf
        /\ overs_df' = out.overs_df
        /\ best_batsmen' = out.best_batsmen
        /\ best_bowlers' = out.best_bowlers
        /\ kpi' = out.kpi
        /\ compare_df' = out.compare_df
        /\ error' = out.error
        /\ UNCHANGED <<matches_df, deliveries_df>>

EmptySession == [season |-> {}, single |-> {}, p1 |-> {}, p2 |-> {}]

\* the first run after load_data() returned m and d
FirstRun(m, d) ==
    \E out \in RunScript(m, d, EmptySession) :
        /\ matches_df = m
        /\ deliveries_df = d
        /\ session = SessionAfter(EmptySession, out)
        /\ selected_season = out.selected_season
        /\ selected_player = out.selected_player
        /\ player1 = out.player1
        /\ player2 = out.player2
        /\ players = out.players
        /\ batting_df = out.batting_df
        /\ bowling_df = out.bowling_df
        /\ player_perf = out.player_perf
        /\ overs_df = out.overs_df
        /\ best_batsmen = out.best_batsmen
        /\ best_bowlers = out.best_bowlers
        /\ kpi = out.kpi
        /\ compare_df = out.compare_df
        /\ error = out.error

-----------------------------------------------------------------------------
(* The user's actions; each one reruns the script *)

\* "Select Season", line 68
SelectSeason(s) ==
    /\ s # selected_season
    /\ Rerun([session EXCEPT !.season = Pick(@, Seasons(matches_df), s)])

\* "Select Player (Single Analysis)", line 81
SelectPlayer(v) ==
    /\ v # selected_player
    /\ Rerun([session EXCEPT !.single = Pick(@, <<AllPlayers>> \o players, v)])

\* "Player 1", line 90
SelectPlayer1(v) ==
    /\ v # player1
    /\ Rerun([session EXCEPT !.p1 = Pick(@, players, v)])

\* "Player 2", line 91: the widget exists only if line 91 did not raise
SelectPlayer2(v) ==
    /\ player2 # Unbound
    /\ v # player2
    /\ Rerun([session EXCEPT !.p2 = Pick(@, players, v)])

SeqToSet(s) == {s[i] : i \in DOMAIN s}

ChangeSeason == \E s \in SeqToSet(Seasons(matches_df)) : SelectSeason(s)
ChangeSinglePlayer == \E v \in {AllPlayers} \cup SeqToSet(players) : SelectPlayer(v)
ChangePlayer1 == \E v \in SeqToSet(players) : SelectPlayer1(v)
ChangePlayer2 == \E v \in SeqToSet(players) : SelectPlayer2(v)

-----------------------------------------------------------------------------
(* The loaded tables *)

\* the longest deliveries table drawn
MaxDeliveries == 3

Match(i, s) == [id |-> i, season |-> s]

Delivery(m, o, bat, bowl, runs, ball, wkt) ==
    [match_id |-> m, over |-> o, batsman |-> bat, bowler |-> bowl,
     batsman_runs |-> runs, ball |-> ball, is_wicket |-> wkt]

\* every table of at most MaxDeliveries rows drawn from Dom
Tables(Dom) == UNION {[1..n -> Dom] : n \in 0..MaxDeliveries}

Ball1 == Fin(1, 1)

(* Widgets: two matches, in the same or in different seasons; deliveries
   differ in match and batsman *)
WidgetMatches ==
    {<<Match(1, s1), Match(2, s2)>> : s1 \in {2020, 2021}, s2 \in {2020, 2021}}
WidgetDeliveries ==
    {Delivery(m, 1, bat, "B", 4, Ball1, 0) : m \in {1, 2}, bat \in {"A", "B", Null}}

Init == \E m \in WidgetMatches, d \in Tables(WidgetDeliveries) : FirstRun(m, d)

Next == ChangeSeason \/ ChangeSinglePlayer \/ ChangePlayer1 \/ ChangePlayer2

Spec == Init /\ [][Next]_vars

(* Batting: two matches of season 2020 and an empty season 2021; deliveries
   differ in batsman, match, runs and in whether the ball cell is null; one
   delivery has no batsman *)
BattingMatches == <<Match(1, 2020), Match(2, 2020), Match(3, 2021)>>
BattingDeliveries ==
    {Delivery(m, 1, bat, "B", runs, Ball1, 0) :
        m \in {1, 2}, bat \in {"A", "B"}, runs \in {0, 4}}
    \cup {Delivery(1, 1, bat, "B", runs, NaN, 0) : bat \in {"A", "B"}, runs \in {0, 4}}
    \cup {Delivery(1, 1, Null, "B", 4, Ball1, 0)}

InitBatting == \E d \in Tables(BattingDeliveries) : FirstRun(BattingMatches, d)

NextSeason == ChangeSeason

SpecBatting == InitBatting /\ [][NextSeason]_vars

(* Merge: deliveries differ in batsman, bowler and wicket flag *)
MergeMatches == <<Match(1, 2020), Match(2, 2021)>>
MergeDeliveries ==
    {Delivery(1, 1, bat, bowl, 1, Ball1, w) :
        bat \in {"A", "B", Null}, bowl \in {"A", "C", Null}, w \in {0, 1}}
    \cup {Delivery(2, 1, "A", "B", 1, Ball1, 1)}

InitMerge == \E d \in Tables(MergeDeliveries) : FirstRun(MergeMatches, d)

SpecMerge == InitMerge /\ [][NextSeason]_vars

(* Overs: deliveries differ in batsman, over and runs *)
OversDeliveries ==
    {Delivery(1, o, bat, "C", runs, Ball1, 0) :
        o \in {6, 7, 15, 16}, bat \in {"A", "B"}, runs \in {1, 4}}
    \cup {Delivery(2, 1, "A", "B", 1, Ball1, 1)}

InitOvers == \E d \in Tables(OversDeliveries) : FirstRun(MergeMatches, d)

SpecOvers == InitOvers /\ [][NextSeason]_vars

(* Best XI: seven batsmen in season 2020; the bowler of a batsman's
   deliveries is the next player.  The first five batsmen each have one of
   four innings, the sixth faces three wicket balls and the seventh one
   ball without a wicket. *)
TopPlayers == SubSeq(NameOrder, 1, 7)
FreePlayers == SubSeq(NameOrder, 1, 5)

\* an innings is a sequence of <<runs, is_wicket>> balls
TopInnings ==
    {<< <<4, 1>> >>, << <<4, 0>>, <<0, 1>> >>, << <<0, 1>>, <<0, 1>> >>, << <<6, 0>> >>}
FixedInnings == << << <<0, 1>>, <<0, 1>>, <<0, 1>> >>, << <<6, 0>> >> >>

InningsDeliveries(i, inn) ==
    [k \in DOMAIN inn |->
        Delivery(1, 1, TopPlayers[i], TopPlayers[(i % Len(TopPlayers)) + 1],
                 inn[k][1], Ball1, inn[k][2])]

TopDeliveries(choice) ==
    Flatten([i \in DOMAIN TopPlayers |->
                InningsDeliveries(i, IF i \in DOMAIN choice THEN choice[i]
                                     ELSE FixedInnings[i - Len(FreePlayers)])])
    \o <<Delivery(2, 1, "A", "B", 1, Ball1, 1), Delivery(2, 1, "B", "A", 1, Ball1, 0)>>

InitTop ==
    \E choice \in [DOMAIN FreePlayers -> TopInnings] :
        FirstRun(MergeMatches, TopDeliveries(choice))

SpecTop == InitTop /\ [][NextSeason]_vars

-----------------------------------------------------------------------------
(* Properties *)

\* the deliveries of the selected season, as loaded
Season == SeasonData(matches_df, deliveries_df, selected_season)

\* the last run got past line 91, so it built its tables
Built == error.type # "StreamlitAPIException"

\* the positions of the season's deliveries that satisfy P
Where(P(_)) == {i \in DOMAIN Season : P(Season[i])}

\* the runs off the bat summed over a set of positions
RECURSIVE RunsAt(_)
RunsAt(I) == IF I = {} THEN 0
             ELSE LET i == CHOOSE x \in I : TRUE
                  IN  Season[i].batsman_runs + RunsAt(I \ {i})

\* the players who are the batsman of at least one delivery of the season
SeasonBatsmen == {Season[i].batsman : i \in DOMAIN Season} \ {Null}

BallsOf(p) == Where(LAMBDA r : r.batsman = p)

RowIndexes(tbl, col, p) == {i \in DOMAIN tbl : tbl[i][col] = p}

(* C1: player_perf has exactly one row for each player who is the batsman of
   at least one delivery of the season, and no other row; a player with no
   row in the bowling aggregate has wickets = 0, one with a row has its
   wicket count. *)
C1_MergeKeepsEveryBatsman ==
    Built =>
        /\ \A p \in SeasonBatsmen :
              Cardinality(RowIndexes(player_perf, "batsman", p)) = 1
        /\ \A i \in DOMAIN player_perf : player_perf[i].batsman \in SeasonBatsmen
        /\ Len(player_perf) = Len(batting_df)
        /\ \A i \in DOMAIN player_perf :
              LET b == RowIndexes(bowling_df, "bowler", player_perf[i].batsman)
                  taken == Cardinality(Where(LAMBDA r :
                              r.is_wicket = 1 /\ r.bowler = player_perf[i].batsman))
              IN  /\ b = {} => player_perf[i].wickets = Zero
                  /\ player_perf[i].wickets = Fin(taken, 1)

\* a season where one batsman took a wicket, another batsman is absent from
\* the bowling aggregate, and a bowler of the aggregate never batted
C1_Witness ==
    /\ Built
    /\ \E i, j \in DOMAIN player_perf :
          /\ player_perf[i].wickets # Zero
          /\ player_perf[j].wickets = Zero
          /\ RowIndexes(bowling_df, "bowler", player_perf[j].batsman) = {}
    /\ \E k \in DOMAIN bowling_df : bowling_df[k].bowler \notin SeasonBatsmen

(* C2: in every row of player_perf, strike_rate is 0 whenever balls_faced is
   0, and strike_rate is never NaN or infinite. *)
C2_StrikeRateGuarded ==
    Built =>
        \A i \in DOMAIN player_perf :
            /\ player_perf[i].balls_faced = 0 => player_perf[i].strike_rate = Zero
            /\ IsFin(player_perf[i].strike_rate)

(* C3: when the selected season has no deliveries, the run raises no error,
   the player list, player_perf and overs_df are empty, the four KPI values
   are 0 (not NaN), and the comparison step does not fail. *)
C3_EmptySeasonIsHarmless ==
    Season = <<>> =>
        /\ error = NoError
        /\ players = <<>>
        /\ player_perf = <<>>
        /\ overs_df = <<>>
        /\ kpi.total_runs = Zero
        /\ kpi.avg_strike_rate = Zero
        /\ kpi.total_wickets = Zero
        /\ kpi.avg_efficiency.rational = Zero

\* the comparison step ran with a selection that has no row in player_perf
ComparisonMisses ==
    /\ Built
    /\ \/ RowsOf(player_perf, player1) = <<>>
       \/ RowsOf(player_perf, player2) = <<>>

(* C4: a comparison in which one of the identifiers has no row in
   player_perf ends in a distinct "player not found" outcome: it builds no
   comparison table of zeros and does not end in an unhandled exception. *)
C4_MissingPlayerIsSignalled ==
    ComparisonMisses =>
        /\ compare_df = NotBuilt
        /\ error.type = "PlayerNotFound"

\* mean^2 / sample variance of the per-match run totals of player p, from
\* the deliveries: with n innings, sum S and sum of squares Q this is
\*   (S/n)^2 / ((n*Q - S^2) / (n*(n-1)))
MatchesOf(p) == {Season[i].match_id : i \in BallsOf(p)}
MatchRuns(p, m) == RunsAt(Where(LAMBDA r : r.batsman = p /\ r.match_id = m))

RECURSIVE SumMatchRuns(_, _, _)
SumMatchRuns(p, M, pow) ==
    IF M = {} THEN 0
    ELSE LET m == CHOOSE x \in M : TRUE
             x == MatchRuns(p, m)
         IN  (IF pow = 2 THEN x * x ELSE x) + SumMatchRuns(p, M \ {m}, pow)

VarTimes(p) ==
    Cardinality(MatchesOf(p)) * SumMatchRuns(p, MatchesOf(p), 2)
        - SumMatchRuns(p, MatchesOf(p), 1) * SumMatchRuns(p, MatchesOf(p), 1)

(* C5: for every player in player_perf, consistency_index is 0 when the
   player batted in fewer than 2 distinct matches of the season or the sample
   standard deviation of the per-match run totals is 0; otherwise it equals
   mean / sample-stddev of the per-match run totals (compared here by
   squares, both sides being non-negative); it is never NaN or infinite. *)
C5_ConsistencyIndex ==
    Built =>
        \A i \in DOMAIN player_perf :
            LET p == player_perf[i].batsman
                n == Cardinality(MatchesOf(p))
                S == SumMatchRuns(p, MatchesOf(p), 1)
                ci == player_perf[i].consistency_index
            IN  /\ IsFin(ci)
                /\ (n < 2 \/ VarTimes(p) = 0) => ci = Zero
                /\ (n >= 2 /\ VarTimes(p) # 0) =>
                      \* ci^2 * var = mean^2, cleared of denominators
                      /\ ci.den # 0
                      /\ ci.num * VarTimes(p) * n * n = ci.den * S * S * n * (n - 1)

\* one player with differing per-match totals (a non-zero index), one with
\* equal non-zero totals in two matches (std 0), one with a single innings
C5_Witness ==
    /\ Built
    /\ \E i \in DOMAIN player_perf : player_perf[i].consistency_index # Zero
    /\ \E i \in DOMAIN player_perf :
          \/ /\ Cardinality(MatchesOf(player_perf[i].batsman)) = 2
             /\ VarTimes(player_perf[i].batsman) = 0
             /\ player_perf[i].total_runs > 0
          \/ Cardinality(MatchesOf(player_perf[i].batsman)) = 1

(* C6, as claimed: the sum of total_runs over the groups of the batting
   aggregate equals the sum of batsman_runs over all the deliveries passed
   to it, those with a null batsman included. *)
C6_RunsConservedOverAll ==
    Built => SumInts(Column(batting_df, "total_runs")) = RunsAt(DOMAIN Season)

(* C6, amended: the sum of total_runs over the groups of the batting
   aggregate equals the sum of batsman_runs over the deliveries whose batsman
   is not null. *)
C6_RunsConservedOverBatsmen ==
    Built => SumInts(Column(batting_df, "total_runs"))
                = RunsAt(Where(LAMBDA r : r.batsman # Null))

\* a season with runs scored by two batsmen and runs on a delivery that has
\* no batsman, one of them on a delivery whose ball cell is null
C6_Witness ==
    /\ Built
    /\ \E i, j \in DOMAIN batting_df :
          i # j /\ batting_df[i].total_runs > 0 /\ batting_df[j].total_runs > 0
    /\ Where(LAMBDA r : r.batsman = Null /\ r.batsman_runs > 0) # {}
    /\ Where(LAMBDA r : r.batsman # Null /\ r.batsman_runs > 0 /\ IsNaN(r.ball)) # {}

(* C7: the batting aggregate has, for each batsman, total_runs =
   sum of runs, balls_faced = number of the player's delivery rows, fours =
   number of deliveries with 4 runs, sixes = number with 6 runs, innings =
   number of distinct match identifiers. *)
C7_BattingAggregateAsClaimed ==
    Built =>
        /\ {batting_df[i].batsman : i \in DOMAIN batting_df} = SeasonBatsmen
        /\ \A i \in DOMAIN batting_df :
              LET p == batting_df[i].batsman
              IN  /\ batting_df[i].total_runs = RunsAt(BallsOf(p))
                  /\ batting_df[i].balls_faced = Cardinality(BallsOf(p))
                  /\ batting_df[i].innings = Cardinality(MatchesOf(p))
                  /\ {"fours", "sixes"} \subseteq DOMAIN batting_df[i]
                  /\ batting_df[i].fours = Cardinality(Where(LAMBDA r :
                                              r.batsman = p /\ r.batsman_runs = 4))
                  /\ batting_df[i].sixes = Cardinality(Where(LAMBDA r :
                                              r.batsman = p /\ r.batsman_runs = 6))

(* C8: powerplay_runs of a player is the sum of runs over that player's
   season deliveries with over <= 6 and death_runs the sum over those with
   over >= 16; no delivery with over in 7..15 contributes to either column;
   a player with deliveries on only one side gets 0 on the other; a player
   whose deliveries are all in overs 7..15 has no row. *)
C8_OversSplit ==
    Built =>
        /\ \A i \in DOMAIN overs_df : overs_df[i].batsman \in SeasonBatsmen
        /\ \A p \in SeasonBatsmen :
              LET early == Where(LAMBDA r : r.batsman = p /\ r.over <= 6)
                  late  == Where(LAMBDA r : r.batsman = p /\ r.over >= 16)
                  mid   == Where(LAMBDA r : r.batsman = p /\ r.over \in 7..15)
                  rows  == RowIndexes(overs_df, "batsman", p)
              IN  /\ early \cup late = {} => rows = {}
                  /\ early \cup late # {} =>
                        /\ Cardinality(rows) = 1
                        /\ \A i \in rows :
                              /\ overs_df[i].powerplay_runs = Fin(RunsAt(early), 1)
                              /\ overs_df[i].death_runs = Fin(RunsAt(late), 1)
                              /\ FAdd(overs_df[i].powerplay_runs, overs_df[i].death_runs)
                                    = Fin(RunsAt(BallsOf(p)) - RunsAt(mid), 1)

\* a player with runs in over 6 and in a middle over but none at the death,
\* and a player all of whose deliveries are in overs 7..15
C8_Witness ==
    /\ Built
    /\ \E i \in DOMAIN overs_df :
          /\ overs_df[i].powerplay_runs # Zero
          /\ overs_df[i].death_runs = Zero
          /\ Where(LAMBDA r : r.batsman = overs_df[i].batsman /\ r.over = 6) # {}
          /\ Where(LAMBDA r : r.batsman = overs_df[i].batsman /\ r.over \in 7..15) # {}
    /\ \E p \in SeasonBatsmen : RowIndexes(overs_df, "batsman", p) = {}

\* row a has a strictly larger (total_runs, strike_rate) key than row b
BatsmanKeyLarger(a, b) ==
    \/ a.total_runs > b.total_runs
    \/ /\ a.total_runs = b.total_runs
       /\ a.strike_rate.num * b.strike_rate.den > b.strike_rate.num * a.strike_rate.den

\* sel is a top-n selection of tbl under Larger, rows identified by column id
IsTopN(sel, tbl, n, id, Larger(_, _)) ==
    /\ Len(sel) = (IF n <= Len(tbl) THEN n ELSE Len(tbl))
    /\ \A i, j \in DOMAIN sel : i < j => ~Larger(sel[j], sel[i])
    /\ \A i \in DOMAIN sel : \E k \in DOMAIN tbl : tbl[k] = sel[i]
    /\ \A i, j \in DOMAIN sel : i # j => sel[i][id] # sel[j][id]
    /\ \A k \in DOMAIN tbl :
          (\A i \in DOMAIN sel : sel[i][id] # tbl[k][id]) =>
              \A i \in DOMAIN sel : ~Larger(tbl[k], sel[i])

(* C9: the Best XI batsmen are min(6, rows) rows of player_perf, sorted
   non-increasing by total_runs with strike_rate as tie-break, the Best XI
   bowlers are min(5, rows) rows of the bowling aggregate sorted
   non-increasing by wickets, and no row left out has a strictly larger key
   than a row selected. *)
C9_BestXI ==
    Built =>
        /\ IsTopN(best_batsmen, player_perf, 6, "batsman", BatsmanKeyLarger)
        /\ IsTopN(best_bowlers, bowling_df, 5, "bowler",
                  LAMBDA a, b : a.wickets > b.wickets)

\* seven batsmen of whom six are selected, two of the selected tied on
\* total_runs and ordered by strike_rate, and more than five bowlers with
\* differing wicket counts, two of them tied and not in table order
C9_Witness ==
    /\ Built
    /\ Len(player_perf) = 7
    /\ Len(best_batsmen) = 6
    /\ \E i, j \in DOMAIN best_batsmen :
          /\ i < j
          /\ best_batsmen[i].total_runs = best_batsmen[j].total_runs
          /\ BatsmanKeyLarger(best_batsmen[i], best_batsmen[j])
    /\ Len(bowling_df) > 5
    /\ Len(best_bowlers) = 5
    /\ best_bowlers[1].wickets > best_bowlers[5].wickets
    /\ \E i, j \in DOMAIN best_bowlers, k, l \in DOMAIN bowling_df :
          /\ i < j /\ l < k
          /\ best_bowlers[i] = bowling_df[k] /\ best_bowlers[j] = bowling_df[l]

(* C10: after any sequence of season, single-player and comparison-player
   selection changes, player1 and player2 are members of the selected
   season's player list and each has a row in player_perf, so the run ends
   without an error; this includes seasons with exactly one batsman. *)
C10_ComparisonSelectionsValid ==
    /\ player1 \in SeqToSet(players)
    /\ player2 \in SeqToSet(players)
    /\ RowsOf(player_perf, player1) # <<>>
    /\ RowsOf(player_perf, player2) # <<>>
    /\ error = NoError

====
